---- MODULE Spec2Model ----
(***************************************************************************)
(* Model of the LIN decoder (src/src/parsers/lin_parser.py) and of the     *)
(* auction replay (src/src/core/contract_solver.py).                       *)
(*                                                                         *)
(* A Python str is modelled as a sequence of one-character strings, so     *)
(* that split, strip, lower, upper and indexing are computed character by  *)
(* character.  A Python dict is a function whose DOMAIN is its key set.    *)
(***************************************************************************)
EXTENDS Integers, Sequences, FiniteSets, TLC

\* ------------------------------------------------------------------------
\* Bounds of the model
\* ------------------------------------------------------------------------
MaxTokens == 8

MaxCalls == 4

MaxParts == 5

\* longest auction of the replays of pass, double, redouble and two bids
MaxReplayCalls == 5

\* longest token sequence of the runs checked for termination and of parse_file
MaxLiveTokens == 6

\* ------------------------------------------------------------------------
\* Python str / list helpers
\* ------------------------------------------------------------------------
Last(s) == s[Len(s)]

Range(s) == {s[x] : x \in 1..Len(s)}

NoDup(s) == \A x, y \in 1..Len(s) : s[x] = s[y] => x = y

\* every sequence of at most len elements of S
RECURSIVE SeqsUpTo(_, _)
SeqsUpTo(S, len) ==
    IF len = 0 THEN {<<>>}
    ELSE LET shorter == SeqsUpTo(S, len - 1)
         IN  shorter \cup {Append(l, e) : l \in {m \in shorter : Len(m) = len - 1},
                                          e \in S}

\* str.split(sep): the parts between successive separators (never empty list)
RECURSIVE split(_, _)
split(s, sep) ==
    IF \A x \in 1..Len(s) : s[x] # sep
    THEN <<s>>
    ELSE LET p == CHOOSE x \in 1..Len(s) :
                     s[x] = sep /\ \A y \in 1..(x - 1) : s[y] # sep
         IN  <<SubSeq(s, 1, p - 1)>> \o split(SubSeq(s, p + 1, Len(s)), sep)

\* sep.join(parts)
RECURSIVE join(_, _)
join(parts, sep) ==
    IF Len(parts) = 0 THEN <<>>
    ELSE IF Len(parts) = 1 THEN parts[1]
    ELSE parts[1] \o <<sep>> \o join(Tail(parts), sep)

Whitespace == {" ", "\t", "\n", "\r"}

\* str.strip(): removes leading and trailing whitespace only
RECURSIVE strip(_)
strip(s) ==
    IF Len(s) = 0 THEN s
    ELSE IF s[1] \in Whitespace THEN strip(Tail(s))
    ELSE IF s[Len(s)] \in Whitespace THEN strip(SubSeq(s, 1, Len(s) - 1))
    ELSE s

Digits == {"0", "1", "2", "3", "4", "5", "6", "7", "8", "9"}

\* ------------------------------------------------------------------------
\* LinParser tables
\* ------------------------------------------------------------------------
SEATS == <<"S", "W", "N", "E">>

SuitChars == {"S", "H", "D", "C"}

RANKS == <<"A", "K", "Q", "J", "T", "9", "8", "7", "6", "5", "4", "3", "2">>

DEALER_MAP(d) ==
    CASE d = "1" -> "S" [] d = "2" -> "W" [] d = "3" -> "N" [] d = "4" -> "E"
      [] OTHER -> "S"

VUL_MAP(v) ==
    CASE v = <<"o">> -> "None" [] v = <<"0">> -> "None" [] v = <<"n">> -> "NS"
      [] v = <<"e">> -> "EW" [] v = <<"b">> -> "All" [] OTHER -> "None"

\* ------------------------------------------------------------------------
\* LinParser._parse_hand_string
\* ------------------------------------------------------------------------
EmptySuits == [s \in SuitChars |-> <<>>]

\* End of the run [^SHDC]* that starts at position k
RECURSIVE RunEnd(_, _)
RunEnd(s, k) ==
    IF k > Len(s) \/ s[k] \in SuitChars THEN k - 1 ELSE RunEnd(s, k + 1)

\* re.findall(r"([SHDC])([^SHDC]*)") scanned from position k, each match
\* assigned to suits[suit_char] (a later match of the same suit overwrites)
RECURSIVE ScanMatches(_, _, _)
ScanMatches(s, k, suits) ==
    IF k > Len(s) THEN suits
    ELSE IF s[k] \in SuitChars
    THEN LET e == RunEnd(s, k + 1)
         IN  ScanMatches(s, e + 1,
                         [suits EXCEPT ![s[k]] = strip(SubSeq(s, k + 1, e))])
    ELSE ScanMatches(s, k + 1, suits)

\* variant: only the first suit run of the string is read
parse_hand_string_firstRun(hand_str) ==
    IF Len(hand_str) = 0 THEN EmptySuits
    ELSE ScanMatches(SubSeq(hand_str, 1, RunEnd(hand_str, 2)), 1, EmptySuits)

parse_hand_string(hand_str) ==
    IF Len(hand_str) = 0 THEN EmptySuits
    ELSE ScanMatches(hand_str, 1, EmptySuits)

\* ------------------------------------------------------------------------
\* LinParser._fill_missing_hand
\* ------------------------------------------------------------------------
\* Python truth value of hands.get(seat): None and the empty dict are falsy
HandTruthy(hands, seat) ==
    seat \in DOMAIN hands /\ DOMAIN hands[seat] # {}

\* variant: the last seat without a hand is taken
MissingSeat_last(hands) ==
    IF \A x \in 1..4 : HandTruthy(hands, SEATS[x]) THEN "none"
    ELSE SEATS[CHOOSE x \in 1..4 :
                   /\ ~HandTruthy(hands, SEATS[x])
                   /\ \A y \in (x + 1)..4 : HandTruthy(hands, SEATS[y])]

\* for seat in ['S','W','N','E']: if not hands.get(seat): missing_seat = seat; break
MissingSeat(hands) ==
    IF \A x \in 1..4 : HandTruthy(hands, SEATS[x]) THEN "none"
    ELSE SEATS[CHOOSE x \in 1..4 :
                   /\ ~HandTruthy(hands, SEATS[x])
                   /\ \A y \in 1..(x - 1) : HandTruthy(hands, SEATS[y])]

\* c = 'T' if card == '10' else card
NormCard(card) == IF card = "10" THEN "T" ELSE card

\* full_deck[suit] after the cards of every other seat have been removed
RemainingDeck(hands, missing_seat, suit) ==
    Range(RANKS) \ {NormCard(hands[seat][suit][x]) :
                        <<seat, x>> \in {<<st, y>> \in (DOMAIN hands \ {missing_seat}) \X (1..13) :
                                             /\ suit \in DOMAIN hands[st]
                                             /\ y <= Len(hands[st][suit])}}

\* sorted(list(full_deck[suit]), key=ranks.index)
SortedByRank(cards) == SelectSeq(RANKS, LAMBDA r : r \in cards)

\* variant: the known hands are put in rank order as well
fill_missing_hand_sorted(hands) ==
    LET missing_seat == MissingSeat(hands)
    IN  IF missing_seat = "none" THEN hands
        ELSE [seat \in DOMAIN hands \cup {missing_seat} |->
                 IF seat = missing_seat
                 THEN [suit \in SuitChars |->
                          SortedByRank(RemainingDeck(hands, missing_seat, suit))]
                 ELSE [suit \in DOMAIN hands[seat] |->
                          SortedByRank(Range(hands[seat][suit]))]]

fill_missing_hand(hands) ==
    LET missing_seat == MissingSeat(hands)
    IN  IF missing_seat = "none" THEN hands
        ELSE [seat \in DOMAIN hands \cup {missing_seat} |->
                 IF seat = missing_seat
                 THEN [suit \in SuitChars |->
                          SortedByRank(RemainingDeck(hands, missing_seat, suit))]
                 ELSE hands[seat]]

\* ------------------------------------------------------------------------
\* Input alphabet of the token stream (content.split('|'))
\* ------------------------------------------------------------------------
T_qx == <<"q", "x">>

T_pn == <<"p", "n">>

T_md == <<"m", "d">>

T_sv == <<"s", "v">>

T_mb == <<"m", "b">>

T_pc == <<"p", "c">>

Tags == {T_qx, T_pn, T_md, T_sv, T_mb, T_pc}

\* the board-id tag as the first token of a new line: content.split('|')
\* leaves the line break in the token
T_qx_newline == <<"\n", "q", "x">>

\* tokens that are no tag: an unrecognized tag and the empty token
OtherTokens == {<<"a", "n">>, <<>>}

BoardIds == {<<"o", "1">>, <<"o", "2">>}

NameVals == {<<"a", ",", "b", ",", "c", ",", "d">>}

VulVals == {<<"n">>, <<"x">>}

CallVals == {<<"1", "S">>, <<>>}

CardVals == {<<"S", "A">>}

\* hand strings: empty, one suit, two suits in either order, a ten written
\* with two characters
HandStrs ==
    {<<>>, <<"S", "A">>, <<"S", "K", "H", "A">>, <<"H", "A", "S", "K">>,
     <<"S", "Q", "J">>, <<"S", "1", "0">>}

\* every list of at most k hand strings
RECURSIVE HandLists(_)
HandLists(k) ==
    IF k = 0 THEN {<<>>}
    ELSE LET shorter == HandLists(k - 1)
         IN  shorter \cup {Append(l, h) : l \in {m \in shorter : Len(m) = k - 1},
                                          h \in HandStrs}

\* first characters of a deal string: the four of DEALER_MAP and one more
DealerDigits == {"1", "2", "3", "4", "7"}

\* deal strings  digit{South},{West},{North},{East}
DealStrings ==
    {<<d>> \o join(l, ",") : d \in DealerDigits, l \in HandLists(MaxParts)}

\* deal values offered to the segmenter: three hands given, four hands with
\* an empty East, and a value that does not start with a digit
DealVals ==
    {<<"1">> \o join(<<<<"S", "A">>, <<"S", "K", "H", "A">>, <<"S", "Q", "J">>>>, ","),
     <<"4">> \o join(<<<<"S", "A">>, <<"S", "K", "H", "A">>, <<"S", "Q", "J">>, <<>>>>, ","),
     <<"x", "S", "A">>}

\* ------------------------------------------------------------------------
\* State
\* ------------------------------------------------------------------------
VARIABLES
    n,                  \* len(tokens)
    tokens,             \* tokens[0 .. i-1], the part of the input read so far
    i,                  \* loop index of parse_content
    pc,                 \* "loop" | "done"   (parse_content)
    current_board_id,
    current_players,
    current_dealer,
    current_vul,
    current_hands,
    current_auction,
    current_play,
    games,              \* the list parse_content returns
    dealer,             \* get_contract argument
    auction,            \* get_contract argument
    cpc,                \* "idle" | "start" | "replay" | "done"  (get_contract)
    k,                  \* number of calls replayed
    first_bidder,
    current_idx,
    last_bid,
    last_bidder_idx,
    doubled,
    result,
    readable,           \* parse_file: whether file_path can be opened and read
    upc,                \* "idle" | "call" | "return"  (a helper called on its own)
    hand_str,           \* _parse_hand_string argument
    suits,              \* _parse_hand_string return value
    deal,               \* _fill_missing_hand argument `hands', repaired in place
    cards_by_suit,      \* ResponseValidator.analyze argument
    partner_bid,        \* ResponseValidator.analyze argument
    response            \* suggested_response of the ResponseMetrics returned

pvars == <<n, tokens, i, pc, current_board_id, current_players, current_dealer,
           current_vul, current_hands, current_auction, current_play, games>>

cvars == <<dealer, auction, cpc, k, first_bidder, current_idx, last_bid,
           last_bidder_idx, doubled, result>>

uvars == <<readable, upc, hand_str, suits, deal, cards_by_suit, partner_bid,
           response>>

vars == <<pvars, cvars, uvars>>

EmptyDict == [x \in {} |-> x]

None == "NoneValue"

\* None where a str or a tuple is expected
NoneSeq == <<"NoneValue">>

\* ------------------------------------------------------------------------
\* LinParser.parse_content
\* ------------------------------------------------------------------------
BridgeGame(bid, players, dlr, vul, hands, auc, play) ==
    [board_id |-> bid, player_names |-> players, dealer |-> dlr,
     vulnerability |-> vul, hands |-> hands, auction |-> auc, play_log |-> play]

\* variant: a record is appended whether or not a deal is held
commit_game_always ==
    Append(games,
           BridgeGame(current_board_id, current_players, current_dealer,
                      current_vul, fill_missing_hand(current_hands),
                      current_auction, current_play))

\* commit_game(): the list of games after the call
commit_game ==
    IF DOMAIN current_hands # {}
    THEN Append(games,
                BridgeGame(current_board_id, current_players, current_dealer,
                           current_vul, fill_missing_hand(current_hands),
                           current_auction, current_play))
    ELSE games

ParseIdle ==
    /\ n = 0 /\ tokens = <<>> /\ i = 0 /\ pc = "idle"
    /\ current_board_id = <<>> /\ current_players = EmptyDict
    /\ current_dealer = "S" /\ current_vul = "None"
    /\ current_hands = EmptyDict /\ current_auction = <<>>
    /\ current_play = <<>> /\ games = <<>>

ContractIdle ==
    /\ dealer = "S" /\ auction = <<>> /\ cpc = "idle" /\ k = 0
    /\ first_bidder = EmptyDict /\ current_idx = 0 /\ last_bid = NoneSeq
    /\ last_bidder_idx = -1 /\ doubled = "" /\ result = NoneSeq

UnitIdle ==
    /\ readable = TRUE /\ upc = "idle" /\ hand_str = <<>> /\ suits = EmptyDict
    /\ deal = EmptyDict /\ cards_by_suit = EmptyDict /\ partner_bid = <<>>
    /\ response = <<>>

\* state of parse_content when the loop is entered
ParseStart(len) ==
    /\ n = len /\ tokens = <<>> /\ i = 0 /\ pc = "loop"
    /\ current_board_id = <<"U", "n", "k", "n", "o", "w", "n">>
    /\ current_players = EmptyDict
    /\ current_dealer = "S" /\ current_vul = "None"
    /\ current_hands = EmptyDict /\ current_auction = <<>>
    /\ current_play = <<>> /\ games = <<>>

Init == (\E len \in 1..MaxTokens : ParseStart(len)) /\ ContractIdle /\ UnitIdle

\* the two ways the loop passes a recognized tag at tokens[i]:
\* with `if i+1 < len(tokens)' true (the value v = tokens[i+1] is read and
\* both are consumed) and with it false (only the trailing i += 1 runs)
TagValue(tag, v) == tokens' = tokens \o <<tag, v>> /\ i' = i + 2

\* variant: a tag in last position is not passed
TagAlone_stays(tag) == tokens' = tokens /\ i' = i

TagAlone(tag) == tokens' = Append(tokens, tag) /\ i' = i + 1

\* 1. BOARD ID (qx)
StepQx ==
    /\ pc = "loop" /\ i < n
    /\ IF i + 1 < n
       THEN \E v \in BoardIds :
               /\ TagValue(T_qx, v)
               /\ games' = commit_game
               /\ IF DOMAIN current_hands # {}
                  THEN /\ current_auction' = <<>>
                       /\ current_play' = <<>>
                       /\ current_hands' = EmptyDict
                  ELSE UNCHANGED <<current_auction, current_play, current_hands>>
               /\ current_board_id' = v
       ELSE /\ TagAlone(T_qx)
            /\ UNCHANGED <<games, current_auction, current_play, current_hands,
                           current_board_id>>
    /\ UNCHANGED <<n, pc, current_players, current_dealer, current_vul, cvars, uvars>>

\* for idx, name in enumerate(names): if idx < 4: current_players[seats[idx]] = name
AssignNames(players, names) ==
    [seat \in DOMAIN players \cup {SEATS[x] : x \in 1..4 \cap 1..Len(names)} |->
        IF \E x \in 1..4 \cap 1..Len(names) : SEATS[x] = seat
        THEN names[CHOOSE x \in 1..4 \cap 1..Len(names) : SEATS[x] = seat]
        ELSE players[seat]]

\* 2. PLAYERS (pn)
StepPn ==
    /\ pc = "loop" /\ i < n
    /\ IF i + 1 < n
       THEN \E v \in NameVals :
               /\ TagValue(T_pn, v)
               /\ current_players' = AssignNames(current_players, split(v, ","))
       ELSE /\ TagAlone(T_pn)
            /\ UNCHANGED current_players
    /\ UNCHANGED <<n, pc, current_board_id, current_dealer, current_vul,
                   current_hands, current_auction, current_play, games, cvars, uvars>>

\* variant: the parts are dealt out starting at the dealer's seat
TempHands_fromDealer(deal_str) ==
    LET hand_strs == split(Tail(deal_str), ",")
        first == CHOOSE x \in 1..4 : SEATS[x] = DEALER_MAP(deal_str[1])
    IN  [seat \in {SEATS[((first + x - 2) % 4) + 1] : x \in 1..4 \cap 1..Len(hand_strs)} |->
            parse_hand_string(hand_strs[CHOOSE x \in 1..4 :
                                            SEATS[((first + x - 2) % 4) + 1] = seat])]

\* temp_hands of the md branch
TempHands(deal_str) ==
    LET hand_strs == split(Tail(deal_str), ",")
    IN  [seat \in {SEATS[x] : x \in 1..4 \cap 1..Len(hand_strs)} |->
            parse_hand_string(hand_strs[CHOOSE x \in 1..4 : SEATS[x] = seat])]

\* body of the md branch for the value v = tokens[i+1]
MdEffect(v) ==
    IF Len(v) > 0 /\ v[1] \in Digits
    THEN /\ current_dealer' = DEALER_MAP(v[1])
         /\ current_hands' = TempHands(v)
    ELSE UNCHANGED <<current_dealer, current_hands>>

\* 3. DEAL (md)
StepMd ==
    /\ pc = "loop" /\ i < n
    /\ IF i + 1 < n
       THEN \E v \in DealVals : TagValue(T_md, v) /\ MdEffect(v)
       ELSE /\ TagAlone(T_md)
            /\ UNCHANGED <<current_dealer, current_hands>>
    /\ UNCHANGED <<n, pc, current_board_id, current_players, current_vul,
                   current_auction, current_play, games, cvars, uvars>>

\* 4. VULNERABILITY (sv)
StepSv ==
    /\ pc = "loop" /\ i < n
    /\ IF i + 1 < n
       THEN \E v \in VulVals :
               /\ TagValue(T_sv, v)
               /\ current_vul' = VUL_MAP(v)
       ELSE /\ TagAlone(T_sv)
            /\ UNCHANGED current_vul
    /\ UNCHANGED <<n, pc, current_board_id, current_players, current_dealer,
                   current_hands, current_auction, current_play, games, cvars, uvars>>

\* 5. BIDS (mb)
StepMb ==
    /\ pc = "loop" /\ i < n
    /\ IF i + 1 < n
       THEN \E v \in CallVals :
               /\ TagValue(T_mb, v)
               /\ current_auction' = IF Len(v) > 0 THEN Append(current_auction, v)
                                     ELSE current_auction
       ELSE /\ TagAlone(T_mb)
            /\ UNCHANGED current_auction
    /\ UNCHANGED <<n, pc, current_board_id, current_players, current_dealer,
                   current_vul, current_hands, current_play, games, cvars, uvars>>

\* 6. PLAY (pc)
StepPc ==
    /\ pc = "loop" /\ i < n
    /\ IF i + 1 < n
       THEN \E v \in CardVals :
               /\ TagValue(T_pc, v)
               /\ current_play' = IF Len(v) > 0 THEN Append(current_play, v)
                                  ELSE current_play
       ELSE /\ TagAlone(T_pc)
            /\ UNCHANGED current_play
    /\ UNCHANGED <<n, pc, current_board_id, current_players, current_dealer,
                   current_vul, current_hands, current_auction, games, cvars, uvars>>

\* tokens[i] matches no branch: only the trailing i += 1 runs
StepOther ==
    /\ pc = "loop" /\ i < n
    /\ \E t \in OtherTokens : tokens' = Append(tokens, t)
    /\ i' = i + 1
    /\ UNCHANGED <<n, pc, current_board_id, current_players, current_dealer,
                   current_vul, current_hands, current_auction, current_play,
                   games, cvars, uvars>>

\* variant: the loop exit returns without the final commit
Finish_noCommit ==
    /\ pc = "loop" /\ ~(i < n)
    /\ pc' = "done"
    /\ UNCHANGED <<n, tokens, i, current_board_id, current_players,
                   current_dealer, current_vul, current_hands, current_auction,
                   current_play, games, cvars, uvars>>

\* loop exit: commit the final game (which repairs current_hands in place)
\* and return
Finish ==
    /\ pc = "loop" /\ ~(i < n)
    /\ games' = commit_game
    /\ current_hands' = IF DOMAIN current_hands # {}
                        THEN fill_missing_hand(current_hands)
                        ELSE current_hands
    /\ pc' = "done"
    /\ UNCHANGED <<n, tokens, i, current_board_id, current_players,
                   current_dealer, current_vul, current_auction,
                   current_play, cvars, uvars>>

Next ==
    \/ StepQx
    \/ StepPn
    \/ StepMd
    \/ StepSv
    \/ StepMb
    \/ StepPc
    \/ StepOther
    \/ Finish

Spec == Init /\ [][Next]_vars

\* parse_content on the shorter inputs
InitLive ==
    (\E len \in 1..MaxLiveTokens : ParseStart(len)) /\ ContractIdle /\ UnitIdle

\* ------------------------------------------------------------------------
\* parse_content on inputs that may be written one game per line
\* ------------------------------------------------------------------------
\* tokens[i] is "\nqx": it equals no tag, only the trailing i += 1 runs
StepQxNewline ==
    /\ pc = "loop" /\ i < n
    /\ tokens' = Append(tokens, T_qx_newline)
    /\ i' = i + 1
    /\ UNCHANGED <<n, pc, current_board_id, current_players, current_dealer,
                   current_vul, current_hands, current_auction, current_play,
                   games, cvars, uvars>>

NextLayout ==
    \/ StepQxNewline
    \/ Next

SpecLayout == InitLive /\ [][NextLayout]_vars

\* ------------------------------------------------------------------------
\* parse_content on the inputs  md|<deal string>  for every deal string
\* ------------------------------------------------------------------------
InitDeal == ParseStart(2) /\ ContractIdle /\ UnitIdle

StepMdDeal ==
    /\ pc = "loop" /\ i < n /\ i + 1 < n
    /\ \E v \in DealStrings : TagValue(T_md, v) /\ MdEffect(v)
    /\ UNCHANGED <<n, pc, current_board_id, current_players, current_vul,
                   current_auction, current_play, games, cvars, uvars>>

NextDeal ==
    \/ StepMdDeal
    \/ Finish

SpecDeal == InitDeal /\ [][NextDeal]_vars

\* ------------------------------------------------------------------------
\* LinParser.parse_file: open and read file_path, then parse_content
\* ------------------------------------------------------------------------
InitFile ==
    /\ n = 0 /\ tokens = <<>> /\ i = 0 /\ pc = "open"
    /\ current_board_id = <<>> /\ current_players = EmptyDict
    /\ current_dealer = "S" /\ current_vul = "None"
    /\ current_hands = EmptyDict /\ current_auction = <<>>
    /\ current_play = <<>> /\ games = <<>>
    /\ ContractIdle
    /\ readable \in BOOLEAN /\ upc = "idle" /\ hand_str = <<>> /\ suits = EmptyDict
    /\ deal = EmptyDict /\ cards_by_suit = EmptyDict /\ partner_bid = <<>>
    /\ response = <<>>

\* except Exception as e: logger.error(...); return []
OpenFails ==
    /\ pc = "open" /\ ~readable
    /\ games' = <<>>
    /\ pc' = "done"
    /\ UNCHANGED <<n, tokens, i, current_board_id, current_players,
                   current_dealer, current_vul, current_hands, current_auction,
                   current_play, cvars, uvars>>

\* content = f.read(); return cls.parse_content(content), up to the loop
OpenReads ==
    /\ pc = "open" /\ readable
    /\ n' \in 1..MaxLiveTokens
    /\ tokens' = <<>> /\ i' = 0 /\ pc' = "loop"
    /\ current_board_id' = <<"U", "n", "k", "n", "o", "w", "n">>
    /\ current_players' = EmptyDict
    /\ current_dealer' = "S" /\ current_vul' = "None"
    /\ current_hands' = EmptyDict /\ current_auction' = <<>>
    /\ current_play' = <<>> /\ games' = <<>>
    /\ UNCHANGED <<cvars, uvars>>

NextFile ==
    \/ OpenFails
    \/ OpenReads
    \/ Next

SpecFile == InitFile /\ [][NextFile]_vars

\* ------------------------------------------------------------------------
\* process_file: the name of the file a record is saved to
\* ------------------------------------------------------------------------
\* file_stem = Path(file_path).stem of the .lin files of one directory
FileStems == {<<"a">>, <<"b">>}

\* filename = f"board_{file_stem}_{game.board_id}.json"
OutputName(file_stem, board_id) ==
    <<"b", "o", "a", "r", "d", "_">> \o file_stem \o <<"_">> \o board_id
        \o <<".", "j", "s", "o", "n">>

\* ------------------------------------------------------------------------
\* LinParser._parse_hand_string called on its own, on every string of at
\* most MaxHandLen characters over two suit letters, two ranks and a blank
\* ------------------------------------------------------------------------
MaxHandLen == 4

HandChars == {"S", "H", "A", "K", " "}

InitHand ==
    /\ ParseIdle /\ ContractIdle
    /\ readable = TRUE /\ upc = "call"
    /\ hand_str \in SeqsUpTo(HandChars, MaxHandLen)
    /\ suits = EmptyDict
    /\ deal = EmptyDict /\ cards_by_suit = EmptyDict /\ partner_bid = <<>>
    /\ response = <<>>

CallParseHand ==
    /\ upc = "call"
    /\ suits' = parse_hand_string(hand_str)
    /\ upc' = "return"
    /\ UNCHANGED <<pvars, cvars, readable, hand_str, deal, cards_by_suit,
                   partner_bid, response>>

NextHand == CallParseHand

SpecHand == InitHand /\ [][NextHand]_vars

\* ------------------------------------------------------------------------
\* LinParser._fill_missing_hand called on its own, on every deal that gives
\* some of the seats one of a few hands
\* ------------------------------------------------------------------------
\* the empty dict, a hand without cards, and hands of one, two and two
\* unordered cards
FillHands ==
    {EmptyDict, EmptySuits,
     [EmptySuits EXCEPT !["S"] = <<"A">>],
     [EmptySuits EXCEPT !["S"] = <<"K">>, !["H"] = <<"A">>],
     [EmptySuits EXCEPT !["S"] = <<"Q", "A">>]}

FillDeals == UNION {[D -> FillHands] : D \in SUBSET {"S", "W", "N", "E"}}

InitFill ==
    /\ ParseIdle /\ ContractIdle
    /\ readable = TRUE /\ upc = "call"
    /\ deal \in FillDeals
    /\ hand_str = <<>> /\ suits = EmptyDict
    /\ cards_by_suit = EmptyDict /\ partner_bid = <<>> /\ response = <<>>

CallFill ==
    /\ upc = "call"
    /\ deal' = fill_missing_hand(deal)
    /\ upc' = "return"
    /\ UNCHANGED <<pvars, cvars, readable, hand_str, suits, cards_by_suit,
                   partner_bid, response>>

NextFill == CallFill

SpecFill == InitFill /\ [][NextFill]_vars

\* ------------------------------------------------------------------------
\* ContractSolver.get_contract
\* ------------------------------------------------------------------------
LowerLetters ==
    <<"a", "b", "c", "d", "e", "f", "g", "h", "i", "j", "k", "l", "m",
      "n", "o", "p", "q", "r", "s", "t", "u", "v", "w", "x", "y", "z">>

UpperLetters ==
    <<"A", "B", "C", "D", "E", "F", "G", "H", "I", "J", "K", "L", "M",
      "N", "O", "P", "Q", "R", "S", "T", "U", "V", "W", "X", "Y", "Z">>

lower_char(ch) ==
    IF \E x \in 1..26 : UpperLetters[x] = ch
    THEN LowerLetters[CHOOSE x \in 1..26 : UpperLetters[x] = ch]
    ELSE ch

upper_char(ch) ==
    IF \E x \in 1..26 : LowerLetters[x] = ch
    THEN UpperLetters[CHOOSE x \in 1..26 : LowerLetters[x] = ch]
    ELSE ch

\* str.lower() and str.upper()
lower(s) == [x \in 1..Len(s) |-> lower_char(s[x])]

upper(s) == [x \in 1..Len(s) |-> upper_char(s[x])]

SUITS == <<"C", "D", "H", "S", "N">>

PLAYERS == <<"S", "W", "N", "E">>

\* player_map.get(dealer, 0)
player_map(d) ==
    CASE d = "S" -> 0 [] d = "W" -> 1 [] d = "N" -> 2 [] d = "E" -> 3
      [] OTHER -> 0

\* 'NS' if player_name in ['N', 'S'] else 'EW'
PartnershipOf(player_name) == IF player_name \in {"N", "S"} THEN "NS" ELSE "EW"

\* variant: the strain letter is taken as written
SuitChar_asWritten(c) == upper_char(c[Len(c)])

\* suit_char = c[-1].upper(); if suit_char == 'T': suit_char = 'N'
SuitChar(c) ==
    LET ch == upper_char(c[Len(c)]) IN IF ch = "T" THEN "N" ELSE ch

\* first_bidder[partnership].get(suit_char)
FirstBidderGet(fb, partnership, suit_char) ==
    IF suit_char \in DOMAIN fb[partnership] THEN fb[partnership][suit_char]
    ELSE None

\* first_bidder[partnership][suit_char] = player_name
FirstBidderSet(fb, partnership, suit_char, player_name) ==
    [fb EXCEPT ![partnership] =
        [s \in DOMAIN fb[partnership] \cup {suit_char} |->
            IF s = suit_char THEN player_name ELSE fb[partnership][s]]]

\* variant: every bid overwrites the partnership's recorded bidder of the strain
RecordFirstBidder_overwrite(fb, c, idx) ==
    FirstBidderSet(fb, PartnershipOf(PLAYERS[idx + 1]), SuitChar(c),
                   PLAYERS[idx + 1])

\* first_bidder after a real bid c made by the seat at current_idx
RecordFirstBidder(fb, c, idx) ==
    LET suit_char   == SuitChar(c)
        player_name == PLAYERS[idx + 1]
        partnership == PartnershipOf(player_name)
    IN  IF FirstBidderGet(fb, partnership, suit_char) = None
        THEN FirstBidderSet(fb, partnership, suit_char, player_name)
        ELSE fb

\* variant: the seat pointer moves against the table order
Rotate_back(idx) == (idx + 3) % 4

\* current_idx = (current_idx + 1) % 4
Rotate(idx) == (idx + 1) % 4

PASS_RESULT == <<<<"P", "A", "S", "S">>, "", "">>

\* calls offered to the replay: pass, double and redouble, and numbered bids
\* in both letter cases and both notrump notations
Calls ==
    {<<"p">>, <<"P">>, <<"d">>, <<"r">>,
     <<"1", "S">>, <<"2", "s">>, <<"1", "n">>, <<"2", "N", "T">>}

InitContract ==
    /\ ParseIdle /\ UnitIdle
    /\ dealer \in Range(PLAYERS)
    /\ auction \in SeqsUpTo(Calls, MaxCalls)
    /\ cpc = "start" /\ k = 0
    /\ first_bidder = EmptyDict /\ current_idx = 0 /\ last_bid = NoneSeq
    /\ last_bidder_idx = -1 /\ doubled = "" /\ result = NoneSeq

\* if not auction or auction == ['p'] * 4: return ("PASS", "", "")
ReturnPassedOut ==
    /\ cpc = "start"
    /\ Len(auction) = 0 \/ auction = <<<<"p">>, <<"p">>, <<"p">>, <<"p">>>>
    /\ result' = PASS_RESULT
    /\ cpc' = "done"
    /\ UNCHANGED <<pvars, uvars, dealer, auction, k, first_bidder, current_idx,
                   last_bid, last_bidder_idx, doubled>>

BeginReplay ==
    /\ cpc = "start"
    /\ ~(Len(auction) = 0 \/ auction = <<<<"p">>, <<"p">>, <<"p">>, <<"p">>>>)
    /\ first_bidder' = [p \in {"NS", "EW"} |-> [s \in Range(SUITS) |-> None]]
    /\ current_idx' = player_map(dealer)
    /\ last_bid' = NoneSeq
    /\ last_bidder_idx' = -1
    /\ doubled' = ""
    /\ cpc' = "replay"
    /\ UNCHANGED <<pvars, uvars, dealer, auction, k, result>>

\* the call the for loop is at, lower-cased
CurCall == lower(auction[k + 1])

IsPassCall(c) == c \in {<<"p">>, <<"p", "a", "s", "s">>}

\* variant: the third pass in a row after a bid closes the auction
CallPass_closes ==
    /\ cpc = "replay" /\ k < Len(auction)
    /\ IsPassCall(CurCall)
    /\ current_idx' = Rotate(current_idx)
    /\ k' = IF /\ last_bid # NoneSeq /\ k >= 2
               /\ IsPassCall(lower(auction[k])) /\ IsPassCall(lower(auction[k - 1]))
            THEN Len(auction) ELSE k + 1
    /\ UNCHANGED <<pvars, uvars, dealer, auction, cpc, first_bidder, last_bid,
                   last_bidder_idx, doubled, result>>

CallPass ==
    /\ cpc = "replay" /\ k < Len(auction)
    /\ IsPassCall(CurCall)
    /\ current_idx' = Rotate(current_idx)
    /\ k' = k + 1
    /\ UNCHANGED <<pvars, uvars, dealer, auction, cpc, first_bidder, last_bid,
                   last_bidder_idx, doubled, result>>

CallDouble ==
    /\ cpc = "replay" /\ k < Len(auction)
    /\ ~IsPassCall(CurCall) /\ CurCall = <<"d">>
    /\ doubled' = "X"
    /\ current_idx' = Rotate(current_idx)
    /\ k' = k + 1
    /\ UNCHANGED <<pvars, uvars, dealer, auction, cpc, first_bidder, last_bid,
                   last_bidder_idx, result>>

CallRedouble ==
    /\ cpc = "replay" /\ k < Len(auction)
    /\ ~IsPassCall(CurCall) /\ CurCall # <<"d">> /\ CurCall = <<"r">>
    /\ doubled' = "XX"
    /\ current_idx' = Rotate(current_idx)
    /\ k' = k + 1
    /\ UNCHANGED <<pvars, uvars, dealer, auction, cpc, first_bidder, last_bid,
                   last_bidder_idx, result>>

\* variant: a real bid leaves the pending doubling marker as it is
CallBid_keepsDoubled ==
    /\ cpc = "replay" /\ k < Len(auction)
    /\ ~IsPassCall(CurCall) /\ CurCall # <<"d">> /\ CurCall # <<"r">>
    /\ doubled' = doubled
    /\ last_bid' = CurCall
    /\ last_bidder_idx' = current_idx
    /\ first_bidder' = RecordFirstBidder(first_bidder, CurCall, current_idx)
    /\ current_idx' = Rotate(current_idx)
    /\ k' = k + 1
    /\ UNCHANGED <<pvars, uvars, dealer, auction, cpc, result>>

CallBid ==
    /\ cpc = "replay" /\ k < Len(auction)
    /\ ~IsPassCall(CurCall) /\ CurCall # <<"d">> /\ CurCall # <<"r">>
    /\ doubled' = ""
    /\ last_bid' = CurCall
    /\ last_bidder_idx' = current_idx
    /\ first_bidder' = RecordFirstBidder(first_bidder, CurCall, current_idx)
    /\ current_idx' = Rotate(current_idx)
    /\ k' = k + 1
    /\ UNCHANGED <<pvars, uvars, dealer, auction, cpc, result>>

\* variant: the pending doubling marker is returned with the all-pass result
ReturnNoBid_keepsDoubled ==
    /\ cpc = "replay" /\ k = Len(auction)
    /\ last_bid = NoneSeq \/ last_bid = <<>>
    /\ result' = <<<<"P", "A", "S", "S">>, "", doubled>>
    /\ cpc' = "done"
    /\ UNCHANGED <<pvars, uvars, dealer, auction, k, first_bidder, current_idx,
                   last_bid, last_bidder_idx, doubled>>

\* if not last_bid: return ("PASS", "", "")
ReturnNoBid ==
    /\ cpc = "replay" /\ k = Len(auction)
    /\ last_bid = NoneSeq \/ last_bid = <<>>
    /\ result' = PASS_RESULT
    /\ cpc' = "done"
    /\ UNCHANGED <<pvars, uvars, dealer, auction, k, first_bidder, current_idx,
                   last_bid, last_bidder_idx, doubled>>

\* contract_display = last_bid.upper(); if it ends with "N" append "T"
ContractDisplay(bid) ==
    LET u == upper(bid) IN IF u[Len(u)] = "N" THEN Append(u, "T") ELSE u

\* declarer = first_bidder[winning_partnership][final_suit]
Declarer(fb, bid, bidder_idx) ==
    fb[PartnershipOf(PLAYERS[bidder_idx + 1])][SuitChar(bid)]

ReturnContract ==
    /\ cpc = "replay" /\ k = Len(auction)
    /\ ~(last_bid = NoneSeq \/ last_bid = <<>>)
    /\ result' = <<ContractDisplay(last_bid),
                   Declarer(first_bidder, last_bid, last_bidder_idx),
                   doubled>>
    /\ cpc' = "done"
    /\ UNCHANGED <<pvars, uvars, dealer, auction, k, first_bidder, current_idx,
                   last_bid, last_bidder_idx, doubled>>

NextContract ==
    \/ ReturnPassedOut
    \/ BeginReplay
    \/ CallPass
    \/ CallDouble
    \/ CallRedouble
    \/ CallBid
    \/ ReturnNoBid
    \/ ReturnContract

SpecContract == InitContract /\ [][NextContract]_vars

\* get_contract on longer auctions of fewer kinds of call
ReplayCalls == {<<"p">>, <<"d">>, <<"r">>, <<"1", "S">>, <<"2", "s">>}

InitReplay ==
    /\ ParseIdle /\ UnitIdle
    /\ dealer \in Range(PLAYERS)
    /\ auction \in SeqsUpTo(ReplayCalls, MaxReplayCalls)
    /\ cpc = "start" /\ k = 0
    /\ first_bidder = EmptyDict /\ current_idx = 0 /\ last_bid = NoneSeq
    /\ last_bidder_idx = -1 /\ doubled = "" /\ result = NoneSeq

SpecReplay == InitReplay /\ [][NextContract]_vars

\* ------------------------------------------------------------------------
\* ResponseValidator.analyze (response_validator.py) over
\* HandValidator._calculate_hcp and _get_distribution (hand_validator.py)
\* ------------------------------------------------------------------------

\* HandValidator.HCP_VALUES.get(card.upper(), 0)
HCP_VALUES(card) ==
    CASE upper_char(card) = "A" -> 4
      [] upper_char(card) = "K" -> 3
      [] upper_char(card) = "Q" -> 2
      [] upper_char(card) = "J" -> 1
      [] OTHER -> 0

RECURSIVE SumHcp(_)
SumHcp(cards) ==
    IF cards = <<>> THEN 0 ELSE HCP_VALUES(Head(cards)) + SumHcp(Tail(cards))

\* cards_by_suit.get(suit, [])
DictGet(cbs, suit) == IF suit \in DOMAIN cbs THEN cbs[suit] ELSE <<>>

calculate_hcp(cbs) ==
    SumHcp(DictGet(cbs, "S")) + SumHcp(DictGet(cbs, "H"))
        + SumHcp(DictGet(cbs, "D")) + SumHcp(DictGet(cbs, "C"))

get_distribution(cbs) == [s \in SuitChars |-> Len(DictGet(cbs, s))]

DigitChars == <<"0", "1", "2", "3", "4", "5", "6", "7", "8", "9">>

\* int(ch) of one decimal digit
int_char(ch) == (CHOOSE x \in 1..10 : DigitChars[x] = ch) - 1

\* _parse_opening: (level, suit), or (0, "") for no bid, a pass, or a text
\* whose first character int() rejects
parse_opening(bid) ==
    IF bid = <<>> \/ upper(bid) = <<"P", "A", "S", "S">>
    THEN <<0, <<>>>>
    ELSE IF bid[1] \in Digits
         THEN <<int_char(bid[1]), upper(Tail(bid))>>
         ELSE <<0, <<>>>>

R_PASS == <<"P", "A", "S", "S">>

\* _respond_to_major_opening: the suggested_response of the metrics returned
respond_to_major_opening(hcp, dist, open_suit) ==
    LET has_fit == dist[open_suit] >= 3
        best_minor == IF dist["D"] >= dist["C"] THEN "D" ELSE "C"
    IN  IF has_fit /\ 6 <= hcp /\ hcp <= 9 THEN <<"2", open_suit>>
        ELSE IF has_fit /\ 10 <= hcp /\ hcp <= 12 THEN <<"3", open_suit>>
        ELSE IF has_fit /\ hcp >= 13 THEN <<"4", open_suit>>
        ELSE IF open_suit = "H" /\ dist["S"] >= 4 /\ hcp >= 6
             THEN <<"1", "S">>
        ELSE IF 6 <= hcp /\ hcp <= 9 THEN <<"1", "N", "T">>
        ELSE IF hcp >= 11 /\ dist[best_minor] >= 4 THEN <<"2", best_minor>>
        ELSE R_PASS

\* _respond_to_minor_opening
respond_to_minor_opening(hcp, dist, open_suit) ==
    IF hcp < 6 THEN R_PASS
    ELSE IF dist["H"] >= 4 /\ dist["S"] >= 4 THEN <<"1", "H">>
    ELSE IF dist["H"] >= 4 THEN <<"1", "H">>
    ELSE IF dist["S"] >= 4 THEN <<"1", "S">>
    ELSE IF 6 <= hcp /\ hcp <= 10 THEN <<"1", "N", "T">>
    ELSE IF 11 <= hcp /\ hcp <= 12 THEN <<"2", "N", "T">>
    ELSE IF 13 <= hcp /\ hcp <= 15 THEN <<"3", "N", "T">>
    ELSE <<"2", open_suit>>

\* _respond_to_1nt
respond_to_1nt(hcp, dist) ==
    IF dist["H"] >= 5 THEN <<"2", "D">>
    ELSE IF dist["S"] >= 5 THEN <<"2", "H">>
    ELSE IF hcp >= 8 /\ (dist["H"] = 4 \/ dist["S"] = 4) THEN <<"2", "C">>
    ELSE IF 8 <= hcp /\ hcp <= 9 THEN <<"2", "N", "T">>
    ELSE IF 10 <= hcp /\ hcp <= 15 THEN <<"3", "N", "T">>
    ELSE R_PASS

\* analyze: the suggested_response of the metrics returned
analyze(cbs, bid) ==
    LET hcp == calculate_hcp(cbs)
        dist == get_distribution(cbs)
        level == parse_opening(bid)[1]
        suit == parse_opening(bid)[2]
    IN  IF level = 0 THEN <<"U", "N", "K", "N", "O", "W", "N">>
        ELSE IF suit \in {<<"H">>, <<"S">>}
             THEN respond_to_major_opening(hcp, dist, suit[1])
        ELSE IF suit \in {<<"C">>, <<"D">>} /\ level = 1
             THEN respond_to_minor_opening(hcp, dist, suit[1])
        ELSE IF suit = <<"N", "T">> /\ level = 1
             THEN respond_to_1nt(hcp, dist)
        ELSE <<"N", "/", "A">>

\* The holdings a responder's suit is drawn from: two to five cards each
Holdings ==
    [S |-> {<<"3", "2">>, <<"A", "3", "2">>, <<"A", "K", "3", "2">>,
            <<"A", "K", "Q", "3", "2">>},
     H |-> {<<"3", "2">>, <<"K", "3", "2">>, <<"A", "Q", "3", "2">>,
            <<"A", "K", "Q", "3", "2">>},
     D |-> {<<"3", "2">>, <<"A", "3", "2">>, <<"K", "J", "3", "2">>,
            <<"A", "Q", "J", "3", "2">>},
     C |-> {<<"3", "2">>, <<"4", "3", "2">>, <<"a", "4", "3", "2">>,
            <<"K", "Q", "4", "3", "2">>}]

\* The thirteen-card hands made of those holdings
ResponderHands ==
    {h \in [SuitChars -> UNION {Holdings[s] : s \in SuitChars}] :
        /\ \A s \in SuitChars : h[s] \in Holdings[s]
        /\ Len(h["S"]) + Len(h["H"]) + Len(h["D"]) + Len(h["C"]) = 13}

PartnerBids ==
    {<<"1", "C">>, <<"1", "D">>, <<"1", "H">>, <<"1", "S">>,
     <<"1", "N", "T">>, <<"1", "h">>, <<"2", "C">>, <<"2", "S">>,
     <<"P", "a", "s", "s">>, <<"X">>, <<>>}

InitResponse ==
    /\ ParseIdle /\ ContractIdle
    /\ readable = TRUE /\ hand_str = <<>> /\ suits = EmptyDict
    /\ deal = EmptyDict
    /\ upc = "call"
    /\ cards_by_suit \in ResponderHands
    /\ partner_bid \in PartnerBids
    /\ response = <<>>

CallAnalyze ==
    /\ upc = "call"
    /\ response' = analyze(cards_by_suit, partner_bid)
    /\ upc' = "return"
    /\ UNCHANGED <<pvars, cvars, readable, hand_str, suits, deal,
                   cards_by_suit, partner_bid>>

NextResponse == CallAnalyze

SpecResponse == InitResponse /\ [][NextResponse]_vars

\* ========================================================================
\* Properties
\* ========================================================================

\* ------------------------------------------------------------------------
\* Vocabulary of the properties, defined on the inputs only
\* ------------------------------------------------------------------------
\* the cyclic order of the table: S -> W -> N -> E -> S
NextSeat(seat) ==
    CASE seat = "S" -> "W" [] seat = "W" -> "N" [] seat = "N" -> "E"
      [] seat = "E" -> "S"

RECURSIVE SeatAfter(_, _)
SeatAfter(seat, steps) ==
    IF steps = 0 THEN seat ELSE SeatAfter(NextSeat(seat), steps - 1)

Partner(seat) ==
    CASE seat = "S" -> "N" [] seat = "N" -> "S" [] seat = "W" -> "E"
      [] seat = "E" -> "W"

\* a numbered bid: level 1-7 followed by a strain
IsNumberedBid(call) ==
    Len(call) >= 2 /\ call[1] \in {"1", "2", "3", "4", "5", "6", "7"}

IsDoubleCall(call) == call \in {<<"d">>, <<"D">>}

IsRedoubleCall(call) == call \in {<<"r">>, <<"R">>}

\* the strain a numbered bid names; NT and N are the same strain
StrainOf(call) ==
    LET t == upper(Tail(call)) IN IF t = <<"N", "T">> THEN <<"N">> ELSE t

HasBid(a) == \E x \in 1..Len(a) : IsNumberedBid(a[x])

\* position (1-based) of the last numbered bid of a, 0 if there is none
LastBidPos(a) ==
    IF HasBid(a)
    THEN CHOOSE x \in 1..Len(a) :
             IsNumberedBid(a[x]) /\ \A y \in (x + 1)..Len(a) : ~IsNumberedBid(a[y])
    ELSE 0

\* the seat that makes the call at position x (1-based) of the auction
CallSeat(x) == SeatAfter(dealer, x - 1)

\* position of the earliest bid of the final strain by the side of the last bid
FirstMentionPos(a) ==
    LET final == LastBidPos(a)
        side  == {CallSeat(final), Partner(CallSeat(final))}
        Mentions(x) == /\ IsNumberedBid(a[x])
                       /\ StrainOf(a[x]) = StrainOf(a[final])
                       /\ CallSeat(x) \in side
    IN  CHOOSE x \in 1..final : Mentions(x) /\ \A y \in 1..(x - 1) : ~Mentions(y)

\* the doubling marker the calls after the last numbered bid leave
RECURSIVE MarkerOf(_)
MarkerOf(a) ==
    IF Len(a) = 0 THEN ""
    ELSE IF IsDoubleCall(Last(a)) THEN "X"
    ELSE IF IsRedoubleCall(Last(a)) THEN "XX"
    ELSE MarkerOf(SubSeq(a, 1, Len(a) - 1))

\* ------------------------------------------------------------------------
\* C4  Declarer by first mention: when the auction holds a numbered bid, the
\* declarer get_contract returns is the seat that made the earliest bid of
\* the final strain among the two seats of the side that made the last
\* numbered bid; it is a seat of that side and never unset.
\* ------------------------------------------------------------------------
C4_DeclarerByFirstMention ==
    (cpc = "done" /\ HasBid(auction)) =>
        LET final == LastBidPos(auction)
        IN  /\ result[2] = CallSeat(FirstMentionPos(auction))
            /\ result[2] \in {CallSeat(final), Partner(CallSeat(final))}
            /\ result[2] # None /\ result[2] # ""

\* the declarer is the partner of the seat that made the final bid
C4_Witness ==
    /\ cpc = "done" /\ HasBid(auction)
    /\ result[2] = Partner(CallSeat(LastBidPos(auction)))

\* ------------------------------------------------------------------------
\* C5  All-pass contract: when the auction holds no numbered bid (empty,
\* passes only, or passes mixed with doubles and redoubles) get_contract
\* returns exactly ("PASS", "", "").
\* ------------------------------------------------------------------------
C5_AllPass ==
    (cpc = "done" /\ ~HasBid(auction)) => result = <<<<"P", "A", "S", "S">>, "", "">>

\* a bid-less auction that holds a double or redouble has been replayed
C5_Witness ==
    /\ cpc = "done" /\ ~HasBid(auction)
    /\ doubled # "" /\ Len(auction) >= 2

\* ------------------------------------------------------------------------
\* C6  Seat rotation: after k calls have been replayed the seat pointer is
\* at the seat k steps after the dealer in the order S -> W -> N -> E -> S,
\* whatever the calls were, and the last bid is attributed to the seat of
\* its position.
\* ------------------------------------------------------------------------
C6_SeatRotation ==
    (cpc = "replay") =>
        /\ PLAYERS[current_idx + 1] = SeatAfter(dealer, k)
        /\ last_bidder_idx # -1 =>
               PLAYERS[last_bidder_idx + 1] = CallSeat(LastBidPos(SubSeq(auction, 1, k)))

\* dealer West, four calls replayed, among them a pass, a double and a bid:
\* the pointer is back at West
C6_Witness ==
    /\ cpc = "replay" /\ dealer = "W" /\ k = 4
    /\ PLAYERS[current_idx + 1] = "W"
    /\ \E x \in 1..4 : auction[x] = <<"p">>
    /\ \E x \in 1..4 : auction[x] = <<"d">>
    /\ last_bidder_idx # -1

\* ------------------------------------------------------------------------
\* C7  Doubling reset: when the auction holds a numbered bid, the marker
\* returned is the one left by the calls after the last numbered bid: "X" if
\* the last double-or-redouble among them is a double, "XX" if it is a
\* redouble, "" if there is none.
\* ------------------------------------------------------------------------
C7_DoublingReset ==
    (cpc = "done" /\ HasBid(auction)) =>
        result[3] = MarkerOf(SubSeq(auction, LastBidPos(auction) + 1, Len(auction)))

\* a double made before the last numbered bid has been cleared
C7_Witness ==
    /\ cpc = "done" /\ HasBid(auction)
    /\ \E x \in 1..(LastBidPos(auction) - 1) : IsDoubleCall(auction[x])
    /\ result[3] = ""

\* ------------------------------------------------------------------------
\* Vocabulary of the decoder properties
\* ------------------------------------------------------------------------
Seats == {"S", "W", "N", "E"}

\* number of cards a seat holds in a decoded deal (0 when the seat is absent)
CardCount(hands, seat) ==
    IF seat \in DOMAIN hands
    THEN Len(hands[seat]["S"]) + Len(hands[seat]["H"])
         + Len(hands[seat]["D"]) + Len(hands[seat]["C"])
    ELSE 0

\* the seats that are absent from the deal or hold no card
MissingSeats(hands) == {seat \in Seats : CardCount(hands, seat) = 0}

\* the places (seat, position) at which a card occurs in a deal
Places(hands, suit, rank) ==
    UNION {{<<seat, x>> : x \in {y \in 1..Len(hands[seat][suit]) :
                                     hands[seat][suit][y] = rank}} :
           seat \in DOMAIN hands}

\* the ranks of a suit held by the seats other than `seat'
HeldByOthers(hands, seat, suit) ==
    UNION {Range(hands[other][suit]) : other \in DOMAIN hands \ {seat}}

\* a step of parse_content that appends a record to games
Emits == Len(games') = Len(games) + 1

Emitted == games'[Len(games')]

\* a decoded deal that is not a deal of 52 distinct cards with at most one
\* hand left out
Inconsistent(hands) ==
    \/ Cardinality(MissingSeats(hands)) > 1
    \/ /\ Cardinality(MissingSeats(hands)) = 1
       /\ \E seat \in Seats \ MissingSeats(hands) : CardCount(hands, seat) # 13
    \/ \E suit \in SuitChars, rank \in Range(RANKS) :
           Cardinality(Places(hands, suit, rank)) > 1

\* the tag/value pairs of a token sequence, in the order the loop visits them
RECURSIVE TagPairs(_)
TagPairs(toks) ==
    IF Len(toks) = 0 THEN <<>>
    ELSE IF toks[1] \in Tags /\ Len(toks) >= 2
    THEN <<<<toks[1], toks[2]>>>> \o TagPairs(SubSeq(toks, 3, Len(toks)))
    ELSE TagPairs(Tail(toks))

IsDealValue(v) == Len(v) > 0 /\ v[1] \in Digits

\* index of the board-id pair at which the accumulator in use was started
\* (a board-id tag met while deal data was held), 0 if there is none
RECURSIVE AccStart(_, _, _, _)
AccStart(pairs, j, start, has_deal) ==
    IF j > Len(pairs) THEN start
    ELSE IF pairs[j][1] = T_qx
    THEN IF has_deal THEN AccStart(pairs, j + 1, j, FALSE)
         ELSE AccStart(pairs, j + 1, start, has_deal)
    ELSE IF pairs[j][1] = T_md /\ IsDealValue(pairs[j][2])
    THEN AccStart(pairs, j + 1, start, TRUE)
    ELSE AccStart(pairs, j + 1, start, has_deal)

\* index of the last board-id pair, 0 if there is none
LastBoardPair(pairs) ==
    IF \E j \in 1..Len(pairs) : pairs[j][1] = T_qx
    THEN CHOOSE j \in 1..Len(pairs) :
             pairs[j][1] = T_qx /\ \A m \in (j + 1)..Len(pairs) : pairs[m][1] # T_qx
    ELSE 0

\* the non-empty values of the pairs of one tag, in order
ValuesOf(pairs, tag) ==
    LET sel == SelectSeq(pairs, LAMBDA pr : pr[1] = tag /\ Len(pr[2]) > 0)
    IN  [x \in 1..Len(sel) |-> sel[x][2]]

\* ------------------------------------------------------------------------
\* C1  Card conservation: whenever a record is emitted for a deal in which
\* exactly one seat is missing and is reconstructed, the four hands of the
\* record hold each of the 52 cards exactly once.
\* ------------------------------------------------------------------------
C1_CardConservation ==
    [][(/\ Emits
        /\ Cardinality(MissingSeats(current_hands)) = 1
        /\ MissingSeat(current_hands) \in MissingSeats(current_hands))
       => /\ DOMAIN Emitted.hands = Seats
          /\ \A suit \in SuitChars, rank \in Range(RANKS) :
                 Cardinality(Places(Emitted.hands, suit, rank)) = 1]_vars

\* ------------------------------------------------------------------------
\* C2  Missing-seat detection: whenever a record is emitted for a deal whose
\* only missing seat is absent or present with 0 cards, the record gives that
\* seat exactly the cards the other three hands do not hold.
\* ------------------------------------------------------------------------
C2_MissingSeatDetection ==
    [][(Emits /\ Cardinality(MissingSeats(current_hands)) = 1)
       => LET m == CHOOSE seat \in Seats : seat \in MissingSeats(current_hands)
          IN  /\ m \in DOMAIN Emitted.hands
              /\ \A suit \in SuitChars :
                     /\ NoDup(Emitted.hands[m][suit])
                     /\ Range(Emitted.hands[m][suit])
                            = Range(RANKS) \ HeldByOthers(current_hands, m, suit)]_vars

\* ------------------------------------------------------------------------
\* C3  Invalid deals fail loudly: no record is emitted for a decoded deal
\* that is inconsistent (more than one seat missing, a repaired hand that
\* cannot have 13 cards, or a card held twice).
\* ------------------------------------------------------------------------
C3_InvalidDealsFailLoudly ==
    [][Inconsistent(current_hands) => ~Emits]_vars

\* ------------------------------------------------------------------------
\* C8  Fresh accumulator at a board boundary: in every emitted record the
\* vulnerability, player names, auction and play log are those set by the
\* tags read since the accumulator in use was started; without such a tag
\* the record carries the fresh value.
\* ------------------------------------------------------------------------
C8_FreshAccumulator ==
    [][Emits =>
         LET pairs == TagPairs(tokens)
             start == AccStart(pairs, 1, 0, FALSE)
             own   == SubSeq(pairs, start + 1, Len(pairs))
             Has(tag) == \E j \in 1..Len(own) : own[j][1] = tag
         IN  /\ ~Has(T_sv) => Emitted.vulnerability = "None"
             /\ ~Has(T_pn) => Emitted.player_names = EmptyDict
             /\ Emitted.auction = ValuesOf(own, T_mb)
             /\ Emitted.play_log = ValuesOf(own, T_pc)]_vars

\* ------------------------------------------------------------------------
\* C9  Board isolation: the auction and the play log of every emitted record
\* hold only the calls and cards read since the last board-id tag, so nothing
\* of an earlier board that produced no deal appears in them.
\* ------------------------------------------------------------------------
C9_BoardIsolation ==
    [][Emits =>
         LET pairs == TagPairs(tokens)
             own   == SubSeq(pairs, LastBoardPair(pairs) + 1, Len(pairs))
         IN  /\ Emitted.auction = ValuesOf(own, T_mb)
             /\ Emitted.play_log = ValuesOf(own, T_pc)]_vars

\* ------------------------------------------------------------------------
\* C10  Unknown tags: when the loop meets a token that is no recognized tag
\* and a token follows it, both are skipped (the index advances by two).
\* ------------------------------------------------------------------------
C10_UnknownTagSkipsValue ==
    [][(/\ pc = "loop" /\ i + 1 < n
        /\ Len(tokens') > Len(tokens)
        /\ tokens'[i + 1] \notin Tags)
       => i' = i + 2]_vars

\* ------------------------------------------------------------------------
\* Vocabulary of the segmenter properties
\* ------------------------------------------------------------------------
\* the tag/value pairs read since the accumulator in use was started
OwnPairs(toks) ==
    LET pairs == TagPairs(toks)
    IN  SubSeq(pairs, AccStart(pairs, 1, 0, FALSE) + 1, Len(pairs))

\* the pairs read since the last board-id tag
SegmentPairs(toks) ==
    LET pairs == TagPairs(toks)
    IN  SubSeq(pairs, LastBoardPair(pairs) + 1, Len(pairs))

HasDeal(pairs) ==
    \E j \in 1..Len(pairs) : pairs[j][1] = T_md /\ IsDealValue(pairs[j][2])

\* the value of the last deal tag whose value starts with a digit
LastDealValue(pairs) ==
    pairs[CHOOSE j \in 1..Len(pairs) :
              /\ pairs[j][1] = T_md /\ IsDealValue(pairs[j][2])
              /\ \A m \in (j + 1)..Len(pairs) :
                     ~(pairs[m][1] = T_md /\ IsDealValue(pairs[m][2]))][2]

\* some pair stores a value in the accumulator
HoldsData(pairs) ==
    \E j \in 1..Len(pairs) :
        \/ pairs[j][1] \in {T_pn, T_sv}
        \/ pairs[j][1] = T_md /\ IsDealValue(pairs[j][2])
        \/ pairs[j][1] \in {T_mb, T_pc} /\ Len(pairs[j][2]) > 0

\* the step on which the loop is left and parse_content returns
Returns == pc = "loop" /\ pc' = "done"

SpecLive == InitLive /\ [][Next]_vars /\ WF_vars(Next)

\* whichever token is at tokens[i], the loop has a step that passes it
PassesAnyToken ==
    /\ ENABLED <<StepQx>>_vars
    /\ ENABLED <<StepPn>>_vars
    /\ ENABLED <<StepMd>>_vars
    /\ ENABLED <<StepSv>>_vars
    /\ ENABLED <<StepMb>>_vars
    /\ ENABLED <<StepPc>>_vars
    /\ ENABLED <<StepOther>>_vars

\* ------------------------------------------------------------------------
\* C13  No hard failure: for every token sequence (empty values, a tag as
\* the last token, unrecognized tags) parse_content passes whatever token
\* is at tokens[i], every iteration moves i forward, the loop is left when
\* the tokens are used up, and the list is returned.
\* ------------------------------------------------------------------------
C13_NoHardFailure ==
    /\ [](pc = "loop" /\ i < n => PassesAnyToken)
    /\ [](pc = "loop" /\ ~(i < n) => ENABLED <<Finish>>_vars)
    /\ [][pc = "loop" => (i' > i /\ i' <= n /\ pc' = "loop") \/ pc' = "done"]_vars
    /\ <>(pc = "done")

\* the input ended with a recognized tag that has no value, and an empty
\* value and an unrecognized tag were read before it
C13_Witness ==
    /\ pc = "done" /\ n >= 4
    /\ tokens[n] \in Tags
    /\ tokens[n - 1] = <<>>
    /\ \E x \in 1..n : tokens[x] = <<"a", "n">>

\* ------------------------------------------------------------------------
\* Reading a deal string character by character
\* ------------------------------------------------------------------------
\* positions of the commas of s
Commas(s) == {x \in 1..Len(s) : s[x] = ","}

\* number of comma-separated parts of s
NumParts(s) == Cardinality(Commas(s)) + 1

\* position of the j-th comma of s (0 for j = 0, Len(s) + 1 past the last)
CommaAt(s, j) ==
    IF j = 0 THEN 0
    ELSE IF j > Cardinality(Commas(s)) THEN Len(s) + 1
    ELSE CHOOSE x \in Commas(s) : Cardinality({y \in Commas(s) : y < x}) = j - 1

\* the j-th comma-separated part of s
PartOf(s, j) == SubSeq(s, CommaAt(s, j - 1) + 1, CommaAt(s, j) - 1)

\* the table 1->S, 2->W, 3->N, 4->E, any other digit S
DealerOfDigit(d) ==
    IF d = "2" THEN "W" ELSE IF d = "3" THEN "N" ELSE IF d = "4" THEN "E" ELSE "S"

\* the deal string of the input  md|<deal string>
DealRead == tokens[2]

\* ------------------------------------------------------------------------
\* C14  Dealer and hand order of a deal string: the first character selects
\* the dealer by 1->S, 2->W, 3->N, 4->E (any other digit S); the j-th
\* comma-separated part after it is the hand of the j-th seat of South,
\* West, North, East whoever the dealer is; parts beyond the fourth are
\* ignored.  Holds for the decoded deal and for the record emitted.
\* ------------------------------------------------------------------------
C14_DealerAndHandOrder ==
    Len(tokens) = 2 =>
        LET rest == Tail(DealRead)
            given == 1..4 \cap 1..NumParts(rest)
        IN  /\ current_dealer = DealerOfDigit(DealRead[1])
            /\ \A j \in given : /\ SEATS[j] \in DOMAIN current_hands
                                /\ current_hands[SEATS[j]]
                                       = parse_hand_string(PartOf(rest, j))
            /\ pc = "loop" => DOMAIN current_hands = {SEATS[j] : j \in given}
            /\ pc = "done" =>
                  /\ Len(games) = 1
                  /\ games[1].dealer = DealerOfDigit(DealRead[1])
                  /\ \A j \in given :
                        games[1].hands[SEATS[j]] = parse_hand_string(PartOf(rest, j))

\* North deals, five parts are given, South and North differ, and the fifth
\* part names cards
C14_Witness ==
    /\ pc = "done" /\ Len(tokens) = 2
    /\ DealRead[1] = "3"
    /\ NumParts(Tail(DealRead)) = 5
    /\ Len(PartOf(Tail(DealRead), 5)) > 0
    /\ games[1].dealer = "N"
    /\ games[1].hands["S"] # games[1].hands["N"]

\* the pairs hold a deal tag, and no deal tag whose value starts with a digit
MalformedDealOnly(pairs) ==
    /\ \E j \in 1..Len(pairs) : pairs[j][1] = T_md
    /\ ~HasDeal(pairs)

\* ------------------------------------------------------------------------
\* C15  Malformed deal value: when the deal tag of the last board has a
\* value that is empty or does not start with a digit, the board is still
\* emitted at the return and its dealer is South.
\* ------------------------------------------------------------------------
C15_MalformedDealDegrades ==
    [][(Returns /\ MalformedDealOnly(SegmentPairs(tokens)))
       => (Emits /\ Emitted.dealer = "S")]_vars

\* ------------------------------------------------------------------------
\* C16  Deal shape: in every record emitted, hands has exactly the four
\* seats S, W, N, E as its keys, also when the deal string has fewer than
\* four comma-separated parts.
\* ------------------------------------------------------------------------
C16_DealShape == [][Emits => DOMAIN Emitted.hands = Seats]_vars

\* ------------------------------------------------------------------------
\* C17  Claimed tricks: every emitted record carries a claimed-tricks
\* field, so reading game.claimed_tricks of an emitted record finds it.
\* ------------------------------------------------------------------------
C17_ClaimedTricksField == [][Emits => "claimed_tricks" \in DOMAIN Emitted]_vars

\* a numbered bid written in one of the two notrump notations, in any case
WritesNotrump(call) ==
    IsNumberedBid(call) /\ upper(Tail(call)) \in {<<"N">>, <<"N", "T">>}

\* position of the earliest notrump bid, in either notation, by the side of
\* the last numbered bid
FirstNotrumpPos(a) ==
    LET final == LastBidPos(a)
        side  == {CallSeat(final), Partner(CallSeat(final))}
        Named(x) == WritesNotrump(a[x]) /\ CallSeat(x) \in side
    IN  CHOOSE x \in 1..final : Named(x) /\ \A y \in 1..(x - 1) : ~Named(y)

\* ------------------------------------------------------------------------
\* C18  Notrump normalization: when the last numbered bid is a notrump bid,
\* written N or NT in any letter case, the contract is displayed as its
\* level followed by NT, and the declarer is the seat of the earliest
\* notrump bid of that side whichever notation each of the bids uses; the
\* result depends on no notation.
\* ------------------------------------------------------------------------
C18_NotrumpNormalization ==
    (cpc = "done" /\ HasBid(auction) /\ WritesNotrump(auction[LastBidPos(auction)])) =>
        /\ result[1] = <<auction[LastBidPos(auction)][1], "N", "T">>
        /\ result[2] = CallSeat(FirstNotrumpPos(auction))

\* the last bid is written 1n, its bidder's partner bid 2NT before, and the
\* partner is the declarer of 1NT
C18_Witness ==
    /\ cpc = "done" /\ HasBid(auction)
    /\ auction[LastBidPos(auction)] = <<"1", "n">>
    /\ \E x \in 1..(LastBidPos(auction) - 1) :
          /\ auction[x] = <<"2", "N", "T">>
          /\ CallSeat(x) = Partner(CallSeat(LastBidPos(auction)))
          /\ result[2] = CallSeat(x)
    /\ result[1] = <<"1", "N", "T">>

\* ------------------------------------------------------------------------
\* Vocabulary of the reconstruction properties
\* ------------------------------------------------------------------------
\* the suit letter that governs position x of a hand string: the nearest
\* suit letter to its left
GoverningSuit(s, x) ==
    s[CHOOSE y \in 1..(x - 1) :
          s[y] \in SuitChars /\ \A z \in (y + 1)..(x - 1) : s[z] \notin SuitChars]

\* the set of characters a hand string writes in a suit, wherever the run of
\* that suit stands in the string
WrittenIn(s, suit) ==
    {s[x] : x \in {y \in 2..Len(s) : s[y] \notin SuitChars /\ GoverningSuit(s, y) = suit}}

\* the set of characters the first j parts of a deal write in a suit
WrittenInParts(rest, j, suit) ==
    UNION {WrittenIn(PartOf(rest, x), suit) : x \in 1..j}

\* the seat parse_content reconstructs for a deal of fewer than four parts
ReconstructedSeat(rest) == SEATS[NumParts(rest) + 1]

\* ------------------------------------------------------------------------
\* C19  Reconstruction determinism: the hand reconstructed for the missing
\* seat is, suit by suit, the ranks AKQJT98765432 in that order without the
\* characters the known hands write in the suit; it depends on the set of
\* cards of the known hands only, not on the order of the suit runs in
\* their strings.
\* ------------------------------------------------------------------------
C19_ReconstructionDeterminism ==
    (pc = "done" /\ Len(tokens) = 2 /\ NumParts(Tail(DealRead)) < 4) =>
        LET rest == Tail(DealRead)
        IN  \A suit \in SuitChars :
               games[1].hands[ReconstructedSeat(rest)][suit]
                   = SelectSeq(RANKS,
                               LAMBDA r : r \notin WrittenInParts(rest, NumParts(rest), suit))

\* three hands are known, one of them written hearts before spades, and East
\* is reconstructed without the heart ace and the spade king
C19_Witness ==
    /\ pc = "done" /\ Len(tokens) = 2
    /\ NumParts(Tail(DealRead)) = 3
    /\ \E j \in 1..3 : PartOf(Tail(DealRead), j) = <<"H", "A", "S", "K">>
    /\ games[1].hands["E"]["H"][1] = "K"
    /\ "K" \notin Range(games[1].hands["E"]["S"])
    /\ Len(games[1].hands["E"]["D"]) = 13

\* a hand string writes a ten of the suit as the two characters 1 0
WritesTen(s, suit) ==
    \E x \in 2..(Len(s) - 1) :
        s[x] = "1" /\ s[x + 1] = "0" /\ GoverningSuit(s, x) = suit

\* ------------------------------------------------------------------------
\* C20  Ten normalization: when a known hand writes a ten of a suit as "10",
\* the hand reconstructed for the missing seat does not hold the T of that
\* suit.
\* ------------------------------------------------------------------------
C20_TenNormalization ==
    (pc = "done" /\ Len(tokens) = 2 /\ NumParts(Tail(DealRead)) < 4) =>
        LET rest == Tail(DealRead)
        IN  \A suit \in SuitChars :
               (\E j \in 1..NumParts(rest) : WritesTen(PartOf(rest, j), suit))
                   => "T" \notin Range(games[1].hands[ReconstructedSeat(rest)][suit])

\* ------------------------------------------------------------------------
\* Vocabulary of the hand-string properties
\* ------------------------------------------------------------------------
\* position of the last marker of a suit in a hand string, 0 if never mentioned
LastMarker(s, suit) ==
    IF \E x \in 1..Len(s) : s[x] = suit
    THEN CHOOSE x \in 1..Len(s) : s[x] = suit /\ \A y \in (x + 1)..Len(s) : s[y] # suit
    ELSE 0

\* the characters between the marker at position x and the next marker
RunAfter(s, x) ==
    LET stop == IF \E y \in (x + 1)..Len(s) : s[y] \in SuitChars
                THEN CHOOSE y \in (x + 1)..Len(s) :
                         s[y] \in SuitChars /\ \A z \in (x + 1)..(y - 1) : s[z] \notin SuitChars
                ELSE Len(s) + 1
    IN  SubSeq(s, x + 1, stop - 1)

\* a run with every whitespace character taken out
WithoutWhitespace(run) == SelectSeq(run, LAMBDA ch : ch \notin Whitespace)

\* ------------------------------------------------------------------------
\* C21  Hand string decoding: _parse_hand_string returns a mapping with
\* exactly the four suits; a suit never mentioned maps to the empty list,
\* and a suit mentioned maps to the characters of its run, up to the next
\* marker or the end of the string, in order, with all whitespace removed.
\* ------------------------------------------------------------------------
C21_HandStringDecoding ==
    upc = "return" =>
        /\ DOMAIN suits = SuitChars
        /\ \A suit \in SuitChars :
              suits[suit] = IF LastMarker(hand_str, suit) = 0 THEN <<>>
                            ELSE WithoutWhitespace(RunAfter(hand_str,
                                                            LastMarker(hand_str, suit)))

\* ------------------------------------------------------------------------
\* C22  Unreadable source is surfaced: parse_file on a source that cannot
\* be read does not end in a normal return, the outcome a readable source
\* without boards has.
\* ------------------------------------------------------------------------
C22_UnreadableSurfaced == ~readable => pc # "done"

AllValuesOf(pairs, tag) ==
    LET sel == SelectSeq(pairs, LAMBDA pr : pr[1] = tag)
    IN  [x \in 1..Len(sel) |-> sel[x][2]]

\* ------------------------------------------------------------------------
\* C24  Calls and plays are kept verbatim and in order: the auction of an
\* emitted record is exactly the sequence of the values of the call tags of
\* its board, none changed or dropped, and the play log exactly the
\* sequence of the values of its played-card tags.
\* ------------------------------------------------------------------------
C24_VerbatimCallsAndPlays ==
    [][Emits =>
         /\ Emitted.auction = AllValuesOf(SegmentPairs(tokens), T_mb)
         /\ Emitted.play_log = AllValuesOf(SegmentPairs(tokens), T_pc)]_vars

\* ------------------------------------------------------------------------
\* Vocabulary of the repair properties
\* ------------------------------------------------------------------------
\* the seats of a deal that have no hand: absent, or given the empty dict
SeatsWithoutHand(d) == {seat \in Seats : seat \notin DOMAIN d \/ DOMAIN d[seat] = {}}

\* the first of S, W, N, E in a set of seats
FirstOf(S) == SEATS[CHOOSE x \in 1..4 : SEATS[x] \in S /\ \A y \in 1..(x - 1) : SEATS[y] \notin S]

\* the ranks of a suit held by the seats that have a hand
HeldByPresent(d, suit) ==
    UNION {Range(d[seat][suit]) : seat \in Seats \ SeatsWithoutHand(d)}

\* seat has the same entry, or the same absence, in the deals d and e
SameEntry(d, e, seat) ==
    /\ seat \in DOMAIN d <=> seat \in DOMAIN e
    /\ seat \in DOMAIN d => d[seat] = e[seat]

\* _fill_missing_hand is called and returns
FillReturns == upc = "call" /\ upc' = "return"

C26_ReconstructionFrame ==
    [][FillReturns =>
         /\ \A seat \in Seats \ SeatsWithoutHand(deal) : deal'[seat] = deal[seat]
         /\ SeatsWithoutHand(deal) = {} => deal' = deal
         /\ \A m \in Seats :
               SeatsWithoutHand(deal) = {m} =>
                   /\ m \in DOMAIN deal' /\ DOMAIN deal'[m] = SuitChars
                   /\ \A seat \in Seats \ {m} : SameEntry(deal, deal', seat)]_vars

\* North was the only missing seat and has been given a hand, next to a
\* known hand whose spades are not in rank order
C26_Witness ==
    /\ upc = "return"
    /\ SeatsWithoutHand(deal) = {}
    /\ deal["S"]["S"] = <<"Q", "A">>
    /\ CardCount(deal, "N") = 50
    /\ Len(deal["N"]["S"]) = 11

\* the contract text of a numbered bid: its level and its strain in capitals,
\* notrump written NT
ContractOf(call) ==
    <<call[1]>> \o (IF StrainOf(call) = <<"N">> THEN <<"N", "T">> ELSE StrainOf(call))

\* ------------------------------------------------------------------------
\* C27  Best-effort replay without legality checks: for every dealer and
\* every sequence of passes, doubles, redoubles and numbered bids
\* get_contract has a branch for every call and for its two returns, each
\* iteration consumes one call, the return comes after the last call, and
\* the contract returned has the level and strain of the last numbered bid
\* of the sequence, whatever the calls before and after it.
\* ------------------------------------------------------------------------
C27_BestEffortReplay ==
    /\ [](cpc = "start" => ENABLED ReturnPassedOut \/ ENABLED BeginReplay)
    /\ []((cpc = "replay" /\ k < Len(auction)) =>
             \/ ENABLED CallPass \/ ENABLED CallDouble \/ ENABLED CallRedouble
             \/ IsNumberedBid(CurCall))
    /\ []((cpc = "replay" /\ k = Len(auction)) =>
             ENABLED ReturnNoBid \/ ENABLED ReturnContract)
    /\ [][(cpc = "replay" /\ k < Len(auction)) => (k' = k + 1 /\ cpc' = "replay")]_vars
    /\ [](cpc = "done" => Len(result) = 3)
    /\ []((cpc = "done" /\ HasBid(auction)) =>
             /\ k = Len(auction)
             /\ result[1] = ContractOf(auction[LastBidPos(auction)]))

\* 1S bid after 2s and three passes is the contract
C27_Witness ==
    /\ cpc = "done"
    /\ auction = <<<<"2", "s">>, <<"p">>, <<"p">>, <<"p">>, <<"1", "S">>>>
    /\ result[1] = <<"1", "S">>

\* ------------------------------------------------------------------------
\* Vocabulary of the board segments
\* ------------------------------------------------------------------------
\* 0 and the indices of the board-id pairs, in order
BoardStarts(pairs) ==
    <<0>> \o SelectSeq([j \in 1..Len(pairs) |-> j], LAMBDA j : pairs[j][1] = T_qx)

\* the pairs of the x-th segment: from after its board-id pair up to the next
SegmentAt(pairs, x) ==
    LET starts == BoardStarts(pairs)
    IN  SubSeq(pairs, starts[x] + 1,
               IF x < Len(starts) THEN starts[x + 1] - 1 ELSE Len(pairs))

\* the board id of the x-th segment
SegmentId(pairs, x) ==
    IF x = 1 THEN <<"U", "n", "k", "n", "o", "w", "n">>
    ELSE pairs[BoardStarts(pairs)[x]][2]

\* the numbers of the segments that hold a deal, in order
DealSegments(pairs) ==
    SelectSeq([x \in 1..Len(BoardStarts(pairs)) |-> x],
              LAMBDA x : HasDeal(SegmentAt(pairs, x)))

\* ------------------------------------------------------------------------
\* C30  Record count and deal replacement: parse_content returns one record
\* for each board segment that holds a deal tag with a digit-leading value,
\* in input order, carrying the segment's board id and the hands and dealer
\* of the last such deal of the segment; a step that reads a deal tag emits
\* nothing.
\* ------------------------------------------------------------------------
C30_RecordCountAndReplacement ==
    /\ [][(Len(tokens') > Len(tokens) /\ tokens'[Len(tokens) + 1] = T_md)
            => games' = games]_vars
    /\ [](pc = "done" =>
            LET pairs == TagPairs(tokens)
                segs  == DealSegments(pairs)
            IN  /\ Len(games) = Len(segs)
                /\ \A x \in 1..Len(segs) :
                      LET v == LastDealValue(SegmentAt(pairs, segs[x]))
                      IN  /\ games[x].board_id = SegmentId(pairs, segs[x])
                          /\ games[x].hands = fill_missing_hand(TempHands(v))
                          /\ games[x].dealer = DEALER_MAP(v[1]))

\* a segment with two deals, of which the record shows the second, follows
\* a segment with a deal and precedes the end of the input
C30_Witness ==
    /\ pc = "done" /\ Len(games) = 2
    /\ \E x \in 1..(Len(tokens) - 3) :
          /\ tokens[x] = T_md /\ IsDealValue(tokens[x + 1]) /\ tokens[x + 1][1] = "1"
          /\ tokens[x + 2] = T_md /\ IsDealValue(tokens[x + 3]) /\ tokens[x + 3][1] = "4"
          /\ x > 2
    /\ games[2].dealer = "E"
    /\ DOMAIN games[2].hands = Seats

\* a token sequence with every line break before a board-id tag taken out
Unbroken(toks) == [x \in 1..Len(toks) |-> IF toks[x] = T_qx_newline THEN T_qx ELSE toks[x]]

\* ------------------------------------------------------------------------
\* C28  Layout independence: an input whose games are written one per
\* line yields the records of the same input written on one line, one for
\* each game.
\* ------------------------------------------------------------------------
C28_LayoutIndependence ==
    pc = "done" => Len(games) = Len(DealSegments(TagPairs(Unbroken(tokens))))

\* ------------------------------------------------------------------------
\* Vocabulary of the responder properties
\* ------------------------------------------------------------------------

\* The high-card points of a hand: ace 4, king 3, queen 2, jack 1, counted
\* on the cards whatever their letter case.
PointsOf(hand) ==
    LET all == hand["S"] \o hand["H"] \o hand["D"] \o hand["C"]
        Count(set) == Cardinality({x \in 1..Len(all) : all[x] \in set})
    IN  4 * Count({"A", "a"}) + 3 * Count({"K", "k"})
            + 2 * Count({"Q", "q"}) + Count({"J", "j"})

OneLevelOpenings ==
    {<<"1", "C">>, <<"1", "D">>, <<"1", "H">>, <<"1", "S">>,
     <<"1", "N", "T">>}

\* C29: whenever analyze has returned for a responder hand of 13 or more
\* high-card points and a 1-level opening of partner (1C, 1D, 1H, 1S or
\* 1NT), the suggested response is not PASS.
C29_GameValuesNeverPass ==
    (/\ upc = "return"
     /\ PointsOf(cards_by_suit) >= 13
     /\ partner_bid \in OneLevelOpenings)
        => response # <<"P", "A", "S", "S">>

====
